---- MODULE Spec2Model ----
(***************************************************************************)
(* Model of pkg/api/service/config_service.go: the Save and Poll handlers  *)
(* of the configuration service, the update-policy resolver                *)
(* createOrUpdateConfigMap, the additive merge, the route separation and   *)
(* the poll-time assembly.  The ConfigMap store (k8s.ConfigMapOperator),   *)
(* utils.* and entity.* live outside this file; they are modelled at their *)
(* interface.                                                              *)
(*                                                                         *)
(* A handler is a sequence of steps, one per call on the store, so that    *)
(* two requests can interleave between their store calls.  Spec runs one   *)
(* request at a time; ConcSpec runs two saves concurrently.                *)
(***************************************************************************)
EXTENDS Integers, Sequences, FiniteSets, TLC

VARIABLES configMaps, req, poll, nreq

vars == <<configMaps, req, poll, nreq>>

(***************************************************************************)
(* Bounds                                                                  *)
(***************************************************************************)
MaxRequests == 2

Procs == {1, 2}

(***************************************************************************)
(* entity.* constants and embed.Env configuration                          *)
(***************************************************************************)
ApiGatewayServiceName == "api-gateway"
RouteConfigMap == "zuul-route"
DefaultProfile == "default"
UpdatePolicyNot == "not"
UpdatePolicyAdd == "add"
UpdatePolicyCover == "cover"
GatewayNames == {"api-gateway", "gateway-helper"}

(***************************************************************************)
(* Decoded YAML values: the interface{} values of a map[string]interface{} *)
(* are nil, a scalar, a sequence or a nested map.  A Go map is a function  *)
(* from its keys.                                                          *)
(***************************************************************************)
Null == [t |-> "null"]
Scalar(s) == [t |-> "scalar", s |-> s]
Sequence(q) == [t |-> "seq", q |-> q]
Map(m) == [t |-> "map", m |-> m]
EmptyMap == [k \in {} |-> Null]

IsMap(v) == v.t = "map"

Without(m, k) == [x \in DOMAIN m \ {k} |-> m[x]]

(***************************************************************************)
(* YAML text.  A text is the empty string, a text that does not decode to  *)
(* a mapping, or the text of a mapping.                                    *)
(***************************************************************************)
EmptyYaml == [y |-> "empty"]
BadYaml == [y |-> "bad"]

\* yaml.Marshal of a decoded mapping: never fails, never the empty string
\* (the empty mapping is written "{}").
yamlMarshal(m) == [y |-> "text", doc |-> m]

\* yaml.Unmarshal into an empty map[string]interface{}: the empty text
\* leaves the map empty.
yamlUnmarshal(text) ==
    IF text.y = "bad" THEN [err |-> TRUE, map |-> EmptyMap]
    ELSE IF text.y = "empty" THEN [err |-> FALSE, map |-> EmptyMap]
    ELSE [err |-> FALSE, map |-> text.doc]

(***************************************************************************)
(* utils (outside this file, modelled at the interface)                    *)
(***************************************************************************)
\* utils.Contain: the key is in the map.
Contain(m, k) == k \in DOMAIN m

\* utils.ConfigMapProfileKey: the name of a profile's blob in a record's
\* data, the one getConfigFromConfigMap builds for a polled version.
ConfigMapProfileKey(profile) ==
    IF profile # DefaultProfile
    THEN "application" \o "-" \o profile \o ".yml"
    ELSE "application" \o ".yml"

\* utils.ConvertRecursiveMapToSingleMap: nested keys joined with ".",
\* sequence elements under their zero-based index, an empty nested map
\* gives no entry, anything else is a leaf.
RECURSIVE FlattenValue(_, _)
RECURSIVE FlattenKeys(_, _, _)
RECURSIVE FlattenElems(_, _, _)
FlattenValue(path, v) ==
    IF v.t = "map" THEN FlattenKeys(path \o ".", v.m, DOMAIN v.m)
    ELSE IF v.t = "seq" THEN FlattenElems(path, v.q, 1)
    ELSE path :> v

FlattenKeys(prefix, m, ks) ==
    IF ks = {} THEN EmptyMap
    ELSE LET k == CHOOSE x \in ks : TRUE
         IN FlattenValue(prefix \o k, m[k]) @@ FlattenKeys(prefix, m, ks \ {k})

FlattenElems(path, q, i) ==
    IF i > Len(q) THEN EmptyMap
    ELSE FlattenValue(path \o "." \o ToString(i - 1), q[i])
         @@ FlattenElems(path, q, i + 1)

ConvertRecursiveMapToSingleMap(m) == FlattenKeys("", m, DOMAIN m)

(***************************************************************************)
(* Merge engine                                                            *)
(***************************************************************************)
\* The loop of recursiveAdd over the keys ks of newMap still to visit.
RECURSIVE recursiveAddKeys(_, _, _)
recursiveAddKeys(oldMap, newMap, ks) ==
    IF ks = {} THEN oldMap
    ELSE LET nk == CHOOSE k \in ks : TRUE
             nv == newMap[nk]
             next ==
                 IF ~Contain(oldMap, nk) THEN (nk :> nv) @@ oldMap
                 ELSE IF nv.t # "null" /\ IsMap(nv)
                         /\ oldMap[nk].t # "null" /\ IsMap(oldMap[nk])
                 THEN [oldMap EXCEPT ![nk] =
                          Map(recursiveAddKeys(@.m, nv.m, DOMAIN nv.m))]
                 ELSE oldMap
         IN recursiveAddKeys(next, newMap, ks \ {nk})

\* A merge in which the incoming value replaces the existing one.
recursiveAddIncomingWins(oldMap, newMap) == newMap @@ oldMap

recursiveAdd(oldMap, newMap) == recursiveAddKeys(oldMap, newMap, DOMAIN newMap)

\* addProperty returns (text, err).  A decode failure of the old text
\* returns ("", nil): the error is dropped.
addProperty(oldYaml, newMap) ==
    LET old == yamlUnmarshal(oldYaml)
    IN IF old.err THEN [yaml |-> EmptyYaml, err |-> FALSE]
       ELSE [yaml |-> yamlMarshal(recursiveAdd(old.map, newMap)), err |-> FALSE]

(***************************************************************************)
(* Route separator                                                         *)
(***************************************************************************)
\* reflect.TypeOf(v).Kind() on a nil v is a call on a nil reflect.Type: the
\* handler panics.  Only the value of the key "zuul" is inspected.
separateRoutePanics(gateway) ==
    Contain(gateway, "zuul") /\ gateway["zuul"].t = "null"

\* The mapping left in gateway once "routes" is deleted from its "zuul" map.
separateRouteKeepsRoutes(gateway) == gateway

separateRouteRemainder(gateway) ==
    IF Contain(gateway, "zuul") /\ IsMap(gateway["zuul"])
    THEN [gateway EXCEPT !["zuul"] = Map(Without(@.m, "routes"))]
    ELSE gateway

\* A separation that extracts nothing.
separateRouteMapEmpty(gateway) == EmptyMap

\* routeMap: the "routes" entry of the "zuul" map, when there is one.
separateRouteMap(gateway) ==
    IF Contain(gateway, "zuul") /\ IsMap(gateway["zuul"])
       /\ Contain(gateway["zuul"].m, "routes")
    THEN "routes" :> gateway["zuul"].m["routes"]
    ELSE EmptyMap

\* (gb, rb, rm, nil) and the gateway map as mutated in place.
separateRoute(gateway) ==
    LET rm == "zuul" :> Map(separateRouteMap(gateway))
    IN [gateway |-> separateRouteRemainder(gateway),
        gb |-> yamlMarshal(separateRouteRemainder(gateway)),
        rb |-> yamlMarshal(rm),
        rm |-> rm]

(***************************************************************************)
(* Poll helpers                                                            *)
(***************************************************************************)
isGateway(service) == service \in GatewayNames

\* entity.ConfigServerAdditions: the fixed properties added to every poll.
ConfigServerAdditions ==
    ("spring.cloud.config.failFast" :> Scalar("true"))
    @@ ("spring.cloud.config.allowOverride" :> Scalar("true"))

appendConfigServerAdditionKeepsExisting(kvMap) == kvMap @@ ConfigServerAdditions

appendConfigServerAddition(kvMap) == ConfigServerAdditions @@ kvMap

\* HasPrefix(k, "zuul.routes.")
HasRoutePrefix(k) ==
    Len(k) >= Len("zuul.routes.") /\ SubSeq(k, 1, Len("zuul.routes.")) = "zuul.routes."

deleteLocalRoutesKeepsThem(kvMap) == kvMap

\* The loop deleting the route keys of the service's own properties.
deleteLocalRoutes(kvMap) ==
    [k \in {x \in DOMAIN kvMap : ~HasRoutePrefix(x)} |-> kvMap[k]]

(***************************************************************************)
(* The store: k8s.ConfigMapOperator (outside this file).  One record per   *)
(* service name in the one namespace modelled; a record holds the YAML     *)
(* text of each profile key and the version annotation.                    *)
(***************************************************************************)
StoreNames == {"api-gateway", "gateway-helper", "svc", "zuul-route"}

NoConfigMap == [exists |-> FALSE]

\* CreateConfigMap(dto): a new record holding dto.Yaml under the profile key
\* of dto.Profile, annotated with dto.Version.
NewConfigMap(dto) ==
    [exists |-> TRUE,
     data |-> (ConfigMapProfileKey(dto.profile) :> dto.yaml),
     version |-> dto.version]

\* UpdateConfigMap(dto): dto.Yaml replaces the blob of the profile key; the
\* other profile keys stay.
UpdatedConfigMap(cm, dto) ==
    [cm EXCEPT !.data = (ConfigMapProfileKey(dto.profile) :> dto.yaml) @@ @,
               !.version = dto.version]

\* QueryConfigMap / QueryConfigMapByName: the record, or nil.
QueryConfigMapByName(cms, name) ==
    IF name \in DOMAIN cms THEN cms[name] ELSE NoConfigMap

\* configMap.Data[key]: the empty string when the key is absent.
Data(cm, key) == IF key \in DOMAIN cm.data THEN cm.data[key] ELSE EmptyYaml

(***************************************************************************)
(* Inputs                                                                  *)
(***************************************************************************)
DocB == ("a" :> Scalar("2")) @@ ("l" :> Sequence(<<Scalar("x"), Scalar("y")>>))
        @@ ("b" :> Map("x" :> Scalar("1")))
DocC == ("a" :> Scalar("1")) @@ ("l" :> Scalar("s"))
        @@ ("b" :> Map(("x" :> Scalar("9")) @@ ("y" :> Scalar("2"))))
        @@ ("spring.cloud.config.failFast" :> Scalar("false"))
DocR1 == "zuul" :> Map("routes" :> Map("r1" :> Scalar("/foo")))
DocR2 == ("zuul" :> Map(("routes" :> Map("r2" :> Scalar("/bar")))
                        @@ ("other" :> Scalar("keep"))))
         @@ ("a" :> Scalar("1"))
DocN == ("zuul" :> Null) @@ ("b" :> Null)

Docs == {DocB, DocC, DocR1, DocR2, DocN}

Policies == {UpdatePolicyNot, UpdatePolicyAdd, UpdatePolicyCover}

SaveConfigDTO(service, profile, policy, yaml) ==
    [service |-> service, profile |-> profile, policy |-> policy,
     version |-> "v1", yaml |-> yaml]

\* Every policy and document for the api-gateway service and for an
\* ordinary service under the default profile, saves of a second
\* gateway-class service, saves under a named profile, and a text that is
\* no YAML mapping.
SaveInputs ==
    {SaveConfigDTO(s, DefaultProfile, po, yamlMarshal(d)) :
        s \in {"api-gateway", "svc"}, po \in Policies, d \in Docs}
    \cup {SaveConfigDTO("gateway-helper", DefaultProfile, po, yamlMarshal(d)) :
        po \in {UpdatePolicyAdd, UpdatePolicyCover}, d \in {DocC, DocR1}}
    \cup {SaveConfigDTO(s, "dev", po, yamlMarshal(DocR2)) :
        s \in {"api-gateway", "svc"},
        po \in {UpdatePolicyAdd, UpdatePolicyCover}}
    \cup {SaveConfigDTO("svc", DefaultProfile, UpdatePolicyCover, BadYaml)}

\* The saves that run concurrently: two services that Save handles alike.
ConcInputs ==
    {SaveConfigDTO(s, DefaultProfile, po, yamlMarshal(d)) :
        s \in {"svc", "gateway-helper"},
        po \in {UpdatePolicyAdd, UpdatePolicyCover}, d \in {DocC, DocR1}}

PollInputs ==
    ({"api-gateway", "gateway-helper", "svc"} \X {"default", "dev"})
    \cup {<<"", "default">>, <<"svc", "">>}

(***************************************************************************)
(* A save request in flight                                                *)
(***************************************************************************)
NoDTO == SaveConfigDTO("", "", "", EmptyYaml)

IdleReq ==
    [pc |-> "idle", phase |-> "own", dto |-> NoDTO, input |-> EmptyYaml,
     source |-> EmptyMap, routeDTO |-> NoDTO, rm |-> EmptyMap,
     inv |-> <<>>, resp |-> <<>>]

NewReq(dto) == [IdleReq EXCEPT !.dto = dto, !.input = dto.yaml]

\* One call of createOrUpdateConfigMap: its arguments, the record it
\* queried, dto.Yaml as it stands, and what it did.
Invocation(phase, dto, source, q) ==
    [phase |-> phase, dto |-> dto, source |-> source, q |-> q,
     yaml |-> dto.yaml, created |-> "no", updated |-> "no", status |-> 0,
     panicked |-> FALSE]

NoPoll == [status |-> 0]

(***************************************************************************)
(* Init                                                                    *)
(***************************************************************************)
EmptyStore == [n \in StoreNames |-> NoConfigMap]

\* The store is external: a record may have been written by hand, with a
\* text that is no YAML mapping.
BrokenStore ==
    [EmptyStore EXCEPT !["svc"] =
        NewConfigMap(SaveConfigDTO("svc", "default", UpdatePolicyCover, BadYaml))]

\* The store after a first save of DocB for "svc".
SavedStore ==
    [EmptyStore EXCEPT !["svc"] =
        NewConfigMap(SaveConfigDTO("svc", "default", UpdatePolicyCover,
                                   yamlMarshal(DocB)))]

Init ==
    /\ configMaps \in {EmptyStore, BrokenStore}
    /\ req = [p \in Procs |-> IdleReq]
    /\ poll = NoPoll
    /\ nreq = 0

ConcInit ==
    /\ configMaps = SavedStore
    /\ req = [p \in Procs |-> IdleReq]
    /\ poll = NoPoll
    /\ nreq = 0

(***************************************************************************)
(* Save                                                                    *)
(***************************************************************************)
Finished(r) == r.pc \in {"idle", "done", "panic"}

\* The current call of createOrUpdateConfigMap.
Current(r) == r.inv[Len(r.inv)]

SetCurrent(r, e) == [r EXCEPT !.inv = [@ EXCEPT ![Len(@)] = e]]

\* createOrUpdateConfigMap returns; Save goes on with its next statement
\* whatever the call wrote on the response.
Return(r) ==
    IF r.phase = "route"
    THEN [r EXCEPT !.phase = "own", !.pc = "query"]
    ELSE [r EXCEPT !.pc = "done"]

\* WriteErrorString(code, ...) followed by return.
WriteError(r, e, code) ==
    Return([SetCurrent(r, [e EXCEPT !.status = code])
               EXCEPT !.resp = Append(@, code)])

\* Save up to the first call on the store: ReadEntity, yaml.Unmarshal, and
\* for the api-gateway service separateRoute and the route DTO.
Save(p, dto) ==
    /\ nreq < MaxRequests
    /\ Finished(req[p])
    /\ nreq' = nreq + 1
    /\ poll' = NoPoll
    /\ LET src == yamlUnmarshal(dto.yaml)
           sep == separateRoute(src.map)
       IN req' = [req EXCEPT ![p] =
              IF src.err
              THEN [NewReq(dto) EXCEPT !.pc = "done", !.resp = <<400>>]
              ELSE IF dto.service = ApiGatewayServiceName
              THEN IF separateRoutePanics(src.map)
                   THEN [NewReq(dto) EXCEPT !.pc = "panic"]
                   ELSE [NewReq(dto) EXCEPT
                            !.pc = "query", !.phase = "route",
                            !.dto.yaml = sep.gb,
                            !.source = sep.gateway,
                            !.routeDTO = SaveConfigDTO(RouteConfigMap, DefaultProfile,
                                                       dto.policy, sep.rb),
                            !.rm = sep.rm]
              ELSE [NewReq(dto) EXCEPT !.pc = "query", !.source = src.map]]
    /\ UNCHANGED configMaps

\* The record exists and the policy is reject-if-exists.
alreadyExistIgnored(q, dto) == FALSE

alreadyExist(q, dto) == q.exists /\ dto.policy = UpdatePolicyNot

\* The merge is run for the policy "add" only.
mergesAlways(dto) == dto.policy # UpdatePolicyNot

merges(dto) == dto.policy = UpdatePolicyAdd

\* Lines 102-114 with a queried record: dto.Yaml becomes the merge of the
\* stored text and the incoming mapping, or the call fails with 500.
mergeYaml(e) ==
    LET oldYaml == Data(e.q, ConfigMapProfileKey(e.dto.profile))
        res == addProperty(oldYaml, e.source)
    IN IF merges(e.dto) /\ oldYaml # EmptyYaml
       THEN IF res.err THEN [e EXCEPT !.status = 500]
            ELSE [e EXCEPT !.yaml = res.yaml]
       ELSE e

\* createOrUpdateConfigMap from its entry to its next call on the store:
\* QueryConfigMap, the 304 of an existing record, the merge.
QueryConfigMap(p) ==
    /\ req[p].pc = "query"
    /\ LET r == req[p]
           d == IF r.phase = "route" THEN r.routeDTO ELSE r.dto
           src == IF r.phase = "route" THEN r.rm ELSE r.source
           q == QueryConfigMapByName(configMaps, d.service)
           e == Invocation(r.phase, d, src, q)
           r1 == [r EXCEPT !.inv = Append(@, e)]
           m == mergeYaml(e)
       IN req' = [req EXCEPT ![p] =
              IF ~q.exists THEN [r1 EXCEPT !.pc = "create"]
              ELSE IF alreadyExist(q, d) THEN WriteError(r1, e, 304)
              ELSE IF m.status # 0 THEN WriteError(r1, e, m.status)
              ELSE [SetCurrent(r1, m) EXCEPT !.pc = "update"]]
    /\ UNCHANGED <<configMaps, poll, nreq>>

\* CreateConfigMap and what follows it: 500 on an error; with the policy
\* "add" the read of queryConfigMap.Data on the nil record panics; with
\* "not" the call returns; with "cover" it goes on to the update.  The
\* store refuses to create a record that exists.
CreateConfigMap(p, ok) ==
    /\ req[p].pc = "create"
    /\ LET r == req[p]
           e == Current(r)
           done == ok /\ ~configMaps[e.dto.service].exists
           c == [e EXCEPT !.created = IF done THEN "ok" ELSE "err"]
       IN /\ configMaps' =
                 IF done
                 THEN [configMaps EXCEPT ![e.dto.service] = NewConfigMap(e.dto)]
                 ELSE configMaps
          /\ req' = [req EXCEPT ![p] =
                 IF ~done THEN WriteError(r, c, 500)
                 ELSE IF merges(e.dto)
                 THEN [SetCurrent(r, [c EXCEPT !.panicked = TRUE])
                          EXCEPT !.pc = "panic"]
                 ELSE IF e.dto.policy # UpdatePolicyNot
                 THEN [SetCurrent(r, c) EXCEPT !.pc = "update"]
                 ELSE Return(SetCurrent(r, c))]
    /\ UNCHANGED <<poll, nreq>>

\* UpdateConfigMap with dto.Yaml as it stands, and the return.
UpdateConfigMap(p, ok) ==
    /\ req[p].pc = "update"
    /\ LET r == req[p]
           e == Current(r)
           d == [e.dto EXCEPT !.yaml = e.yaml]
           u == [e EXCEPT !.updated = IF ok THEN "ok" ELSE "err"]
       IN /\ configMaps' =
                 IF ok
                 THEN [configMaps EXCEPT ![d.service] = UpdatedConfigMap(@, d)]
                 ELSE configMaps
          /\ req' = [req EXCEPT ![p] =
                 IF ok THEN Return(SetCurrent(r, u)) ELSE WriteError(r, u, 500)]
    /\ UNCHANGED <<poll, nreq>>

(***************************************************************************)
(* Poll                                                                    *)
(***************************************************************************)
\* A lookup for which a missing record is an empty configuration.
getConfigFromConfigMapMissingIsEmpty(cms, service, version) ==
    LET configMap == QueryConfigMapByName(cms, service)
        yamlString == IF configMap.exists
                      THEN Data(configMap, ConfigMapProfileKey(version))
                      ELSE EmptyYaml
        source == yamlUnmarshal(yamlString)
    IN IF source.err
       THEN [err |-> TRUE, kvMap |-> EmptyMap, version |-> ""]
       ELSE [err |-> FALSE,
             kvMap |-> ConvertRecursiveMapToSingleMap(source.map),
             version |-> ""]

\* A lookup that reads the default profile's text whatever the version.
getConfigFromConfigMapDefaultKey(cms, service, version) ==
    LET configMap == QueryConfigMapByName(cms, service)
        source == IF configMap.exists
                  THEN yamlUnmarshal(Data(configMap, "application" \o ".yml"))
                  ELSE [err |-> TRUE, map |-> EmptyMap]
    IN IF source.err
       THEN [err |-> TRUE, kvMap |-> EmptyMap, version |-> ""]
       ELSE [err |-> FALSE,
             kvMap |-> ConvertRecursiveMapToSingleMap(source.map),
             version |-> configMap.version]

\* (kvMap, version annotation, err) of a service's record for a version.
getConfigFromConfigMap(cms, service, version) ==
    LET configMap == QueryConfigMapByName(cms, service)
        application == IF version # DefaultProfile
                       THEN "application" \o "-" \o version \o ".yml"
                       ELSE "application" \o ".yml"
        yamlString == Data(configMap, application)
        source == IF yamlString # EmptyYaml THEN yamlUnmarshal(yamlString)
                  ELSE [err |-> FALSE, map |-> EmptyMap]
    IN IF ~configMap.exists \/ source.err
       THEN [err |-> TRUE, kvMap |-> EmptyMap, version |-> ""]
       ELSE [err |-> FALSE,
             kvMap |-> ConvertRecursiveMapToSingleMap(source.map),
             version |-> configMap.version]

\* The response of Poll(service, version) on the store cms.
PollResponse(cms, service, version) ==
    LET own == getConfigFromConfigMap(cms, service, version)
        route == getConfigFromConfigMap(cms, RouteConfigMap, version)
        kvMap == IF isGateway(service)
                 THEN route.kvMap @@ deleteLocalRoutes(own.kvMap)
                 ELSE own.kvMap
    IN IF service = "" \/ version = ""
       THEN [service |-> service, version |-> version, status |-> 400]
       ELSE IF own.err \/ (isGateway(service) /\ route.err)
       THEN [service |-> service, version |-> version, status |-> 404]
       ELSE [service |-> service, version |-> version, status |-> 200,
             env |-> [name |-> service,
                      version |-> own.version,
                      profiles |-> <<version>>,
                      propertySource |-> service \o "-" \o version \o "-" \o own.version,
                      source |-> appendConfigServerAddition(kvMap)]]

\* A poll that writes the empty text back for the polled profile.
PollWritesBack(service, version) ==
    /\ poll' = PollResponse(configMaps, service, version)
    /\ configMaps' =
           IF QueryConfigMapByName(configMaps, service).exists
           THEN [configMaps EXCEPT ![service] =
                    UpdatedConfigMap(@, SaveConfigDTO(service, version,
                                                      UpdatePolicyCover, EmptyYaml))]
           ELSE configMaps
    /\ UNCHANGED <<req, nreq>>

Poll(service, version) ==
    /\ poll' = PollResponse(configMaps, service, version)
    /\ UNCHANGED <<configMaps, req, nreq>>

(***************************************************************************)
(* Specifications                                                          *)
(***************************************************************************)
\* One request at a time.
Next ==
    \/ \E dto \in SaveInputs : Save(1, dto)
    \/ QueryConfigMap(1)
    \/ \E ok \in BOOLEAN : CreateConfigMap(1, ok)
    \/ \E ok \in BOOLEAN : UpdateConfigMap(1, ok)
    \/ \E i \in PollInputs : Finished(req[1]) /\ Poll(i[1], i[2])

Spec == Init /\ [][Next]_vars

\* Two saves of the same service in flight, polls at any time.
ConcNext ==
    \/ \E p \in Procs, dto \in ConcInputs : Save(p, dto)
    \/ \E p \in Procs : QueryConfigMap(p)
    \/ \E p \in Procs, ok \in BOOLEAN : CreateConfigMap(p, ok)
    \/ \E p \in Procs, ok \in BOOLEAN : UpdateConfigMap(p, ok)
    \/ \E v \in {"default"} : Poll("svc", v)

ConcSpec == ConcInit /\ [][ConcNext]_vars

(***************************************************************************)
(* Properties                                                              *)
(***************************************************************************)
\* The i-th call of createOrUpdateConfigMap of request r has returned (or
\* the request has ended in it).
Over(r, i) == i < Len(r.inv) \/ Finished(r)

\* The text stored for the profile key of a call's DTO.
Stored(e) == Data(configMaps[e.dto.service], ConfigMapProfileKey(e.dto.profile))

\* The text the call queried for that profile key.
Queried(e) == Data(e.q, ConfigMapProfileKey(e.dto.profile))

\* R is the additive merge of E and N: the keys of both; a key of one side
\* only has that side's value; a key of both sides is merged when both
\* values are mappings and keeps E's value otherwise.
RECURSIVE AdditiveMerge(_, _, _)
AdditiveMerge(E, N, R) ==
    /\ DOMAIN R = DOMAIN E \cup DOMAIN N
    /\ \A k \in DOMAIN R :
          IF k \notin DOMAIN E THEN R[k] = N[k]
          ELSE IF k \notin DOMAIN N THEN R[k] = E[k]
          ELSE IF IsMap(E[k]) /\ IsMap(N[k])
          THEN IsMap(R[k]) /\ AdditiveMerge(E[k].m, N[k].m, R[k].m)
          ELSE R[k] = E[k]

\* The text decodes to a mapping with "routes" under its "zuul" mapping.
HasRoutes(text) ==
    LET d == yamlUnmarshal(text)
    IN /\ ~d.err
       /\ Contain(d.map, "zuul")
       /\ IsMap(d.map["zuul"])
       /\ Contain(d.map["zuul"].m, "routes")

\* A step in which process p runs a call of createOrUpdateConfigMap that
\* finds the record and has the policy reject-if-exists.
RejectCall(p) ==
    /\ req[p].pc = "query"
    /\ Len(req'[p].inv) = Len(req[p].inv) + 1
    /\ Current(req'[p]).q.exists
    /\ Current(req'[p]).dto.policy = UpdatePolicyNot

\* C1: a call of createOrUpdateConfigMap that finds the record under the
\* policy reject-if-exists returns in the step of its query: it makes no
\* create and no update call, leaves the store as it was and writes 304.
C1_RejectIfExists ==
    [][\A p \in Procs :
          RejectCall(p) =>
             /\ configMaps' = configMaps
             /\ Current(req'[p]).created = "no"
             /\ Current(req'[p]).updated = "no"
             /\ Current(req'[p]).status = 304
             /\ req'[p].resp = Append(req[p].resp, 304)
             /\ req'[p].pc \notin {"create", "update"}]_vars

C1_Witness ==
    \E i \in DOMAIN req[1].inv :
        /\ req[1].inv[i].q.exists
        /\ req[1].inv[i].dto.policy = UpdatePolicyNot
        /\ req[1].inv[i].status = 304
        /\ Over(req[1], i)

\* C2: a call with the policy merge-if-exists that finds no record and
\* whose create succeeds goes on to the update and does not crash; when the
\* update succeeds the stored text is the incoming one.
C2_FirstAddCompletes ==
    \A i \in DOMAIN req[1].inv :
        LET e == req[1].inv[i]
        IN (/\ Over(req[1], i)
            /\ e.dto.policy = UpdatePolicyAdd
            /\ ~e.q.exists
            /\ e.created = "ok")
           => /\ ~e.panicked
              /\ e.updated # "no"
              /\ (e.updated = "ok" => Stored(e) = e.dto.yaml)

\* C3: after a call with the policy merge-if-exists on a record whose text
\* E for the profile key is non-empty and decodes, and whose update
\* succeeded, the stored text decodes to the additive merge of E and the
\* incoming mapping.
C3_MergeIsAdditive ==
    \A i \in DOMAIN req[1].inv :
        LET e == req[1].inv[i]
            E == yamlUnmarshal(Queried(e))
            R == yamlUnmarshal(Stored(e))
        IN (/\ e.dto.policy = UpdatePolicyAdd
            /\ e.q.exists
            /\ Queried(e) # EmptyYaml
            /\ ~E.err
            /\ e.updated = "ok")
           => /\ ~R.err
              /\ Stored(e) # EmptyYaml
              /\ AdditiveMerge(E.map, e.source, R.map)

\* A merge with a key that is a mapping on both sides and gains a key, and
\* a key whose values differ and are not both mappings.
C3_Witness ==
    \E i \in DOMAIN req[1].inv :
        LET e == req[1].inv[i]
            E == yamlUnmarshal(Queried(e))
        IN /\ e.dto.policy = UpdatePolicyAdd
           /\ e.q.exists
           /\ Queried(e) # EmptyYaml
           /\ ~E.err
           /\ e.updated = "ok"
           /\ \E k \in DOMAIN E.map \cap DOMAIN e.source :
                 /\ IsMap(E.map[k]) /\ IsMap(e.source[k])
                 /\ DOMAIN e.source[k].m \ DOMAIN E.map[k].m # {}
           /\ \E k \in DOMAIN E.map \cap DOMAIN e.source :
                 /\ ~IsMap(E.map[k])
                 /\ E.map[k] # e.source[k]

\* The incoming document of a save as it is to be persisted: for the
\* api-gateway service, the document without the routes of its "zuul"
\* mapping, serialized; else the submitted text.
Incoming(r) ==
    LET doc == yamlUnmarshal(r.input).map
    IN IF r.dto.service = ApiGatewayServiceName
       THEN IF Contain(doc, "zuul") /\ IsMap(doc["zuul"])
            THEN yamlMarshal([doc EXCEPT !["zuul"] = Map(Without(@.m, "routes"))])
            ELSE yamlMarshal(doc)
       ELSE r.input

\* C4: after the call for the document's own service with the policy
\* overwrite on an existing record, the update having succeeded, the text
\* stored for the profile key is the incoming document.
C4_CoverPersistsIncoming ==
    \A i \in DOMAIN req[1].inv :
        LET e == req[1].inv[i]
        IN (/\ e.phase = "own"
            /\ e.dto.policy = UpdatePolicyCover
            /\ e.q.exists
            /\ e.updated = "ok")
           => Stored(e) = Incoming(req[1])

\* An overwrite of a text with a key the incoming document does not have.
C4_Witness ==
    \E i \in DOMAIN req[1].inv :
        LET e == req[1].inv[i]
            E == yamlUnmarshal(Queried(e))
        IN /\ e.phase = "own"
           /\ e.dto.policy = UpdatePolicyCover
           /\ e.q.exists
           /\ e.updated = "ok"
           /\ ~E.err
           /\ DOMAIN E.map \ DOMAIN yamlUnmarshal(req[1].input).map # {}

\* C5 as stated: no stored document of a gateway-class service has
\* "routes" under its "zuul" mapping.
C5_NoRoutesInGatewayClassDocs ==
    \A s \in GatewayNames :
        configMaps[s].exists =>
           \A k \in DOMAIN configMaps[s].data : ~HasRoutes(configMaps[s].data[k])

\* C5 amended: no stored document of the api-gateway service, the one
\* service whose saves are split, has "routes" under its "zuul" mapping.
C5_NoRoutesInApiGatewayDoc ==
    configMaps[ApiGatewayServiceName].exists =>
       \A k \in DOMAIN configMaps[ApiGatewayServiceName].data :
           ~HasRoutes(configMaps[ApiGatewayServiceName].data[k])

\* A finished api-gateway save of a document with routes: its own record
\* and the route table were both written.
C5_Witness ==
    /\ req[1].pc = "done"
    /\ req[1].dto.service = ApiGatewayServiceName
    /\ HasRoutes(req[1].input)
    /\ Len(req[1].inv) = 2
    /\ req[1].inv[1].updated = "ok"
    /\ req[1].inv[2].updated = "ok"
    /\ HasRoutes(Data(configMaps[RouteConfigMap], ConfigMapProfileKey(DefaultProfile)))

\* The flattened properties of a service's record for the polled version.
Flattened(service) == getConfigFromConfigMap(configMaps, service, poll.version).kvMap

\* C6: a successful poll of a gateway-class service returns under the
\* prefix "zuul.routes." only keys of the shared route table, with its
\* values, and returns every property of the route table, with its value
\* unless a static addition has the key.
C6_GatewayPollOverlay ==
    (poll.status = 200 /\ isGateway(poll.service)) =>
       /\ \A k \in DOMAIN poll.env.source :
             HasRoutePrefix(k) =>
                /\ k \in DOMAIN Flattened(RouteConfigMap)
                /\ poll.env.source[k] = Flattened(RouteConfigMap)[k]
       /\ \A k \in DOMAIN Flattened(RouteConfigMap) :
             /\ k \in DOMAIN poll.env.source
             /\ k \notin DOMAIN ConfigServerAdditions
                   => poll.env.source[k] = Flattened(RouteConfigMap)[k]

\* A poll of a gateway-class service whose own document has a route the
\* route table has not, the route table having another.
C6_Witness ==
    /\ poll.status = 200
    /\ isGateway(poll.service)
    /\ \E k \in DOMAIN Flattened(poll.service) :
          HasRoutePrefix(k) /\ k \notin DOMAIN poll.env.source
    /\ \E k \in DOMAIN Flattened(RouteConfigMap) : HasRoutePrefix(k)

\* C7: once a call of createOrUpdateConfigMap has written 304 or 500, the
\* request makes no create and no update call any more, and it writes at
\* most one error.
C7_FailureIsTerminal ==
    /\ Len(req[1].resp) <= 1
    /\ \A i, j \in DOMAIN req[1].inv :
          (i < j /\ req[1].inv[i].status # 0) =>
             /\ req[1].inv[j].created = "no"
             /\ req[1].inv[j].updated = "no"

\* C8: a call with the policy merge-if-exists on a record whose text for
\* the profile key is non-empty and does not decode ends with 500, without
\* an update call.
C8_MergeFailureIs500 ==
    \A i \in DOMAIN req[1].inv :
        LET e == req[1].inv[i]
        IN (/\ Over(req[1], i)
            /\ e.dto.policy = UpdatePolicyAdd
            /\ e.q.exists
            /\ Queried(e) # EmptyYaml
            /\ yamlUnmarshal(Queried(e)).err)
           => /\ e.status = 500
              /\ e.updated = "no"
              /\ Stored(e) = Queried(e)

\* Both processes have finished a successful merge-if-exists save of the
\* same existing record and profile key.
BothMerged ==
    /\ \A p \in Procs :
          /\ req[p].pc = "done"
          /\ Len(req[p].inv) = 1
          /\ req[p].inv[1].dto.policy = UpdatePolicyAdd
          /\ req[p].inv[1].q.exists
          /\ req[p].inv[1].updated = "ok"
    /\ req[1].inv[1].dto.service = req[2].inv[1].dto.service
    /\ req[1].inv[1].dto.profile = req[2].inv[1].dto.profile

\* C9: the last write wins.  After two concurrent merge-if-exists saves of
\* the same record, the stored text is the one written by one of them, the
\* additive merge of the incoming mapping with the text that save queried,
\* be it stale.
C9_LastWriteWins ==
    BothMerged =>
       \E p \in Procs :
          LET e == req[p].inv[1]
          IN /\ Stored(e) = e.yaml
             /\ AdditiveMerge(yamlUnmarshal(Queried(e)).map, e.source,
                              yamlUnmarshal(e.yaml).map)

\* The lost update: each save adds a key the other has not, both queried
\* the same text, and the stored document lacks a key one of them added.
C9_Witness ==
    /\ BothMerged
    /\ Queried(req[1].inv[1]) = Queried(req[2].inv[1])
    /\ \E p \in Procs :
          LET mine == req[p].inv[1]
              other == req[3 - p].inv[1]
              E == yamlUnmarshal(Queried(mine)).map
              R == yamlUnmarshal(Stored(mine)).map
          IN /\ \E k \in DOMAIN other.source : k \notin DOMAIN E \cup DOMAIN mine.source
             /\ \E k \in DOMAIN mine.source :
                   /\ k \notin DOMAIN E \cup DOMAIN other.source
                   /\ k \notin DOMAIN R

\* C10: every successful poll returns every static addition with the
\* static addition's value.
C10_StaticAdditions ==
    poll.status = 200 =>
       \A k \in DOMAIN ConfigServerAdditions :
           /\ k \in DOMAIN poll.env.source
           /\ poll.env.source[k] = ConfigServerAdditions[k]

\* A poll of a service whose stored document gives a static addition's key
\* another value.
C10_Witness ==
    /\ poll.status = 200
    /\ \E k \in DOMAIN ConfigServerAdditions :
          /\ k \in DOMAIN Flattened(poll.service)
          /\ Flattened(poll.service)[k] # ConfigServerAdditions[k]

\* C11: a poll of a service without a record, and a poll of a gateway-class
\* service when the route table has no record, end with 404 and emit no
\* Environment.
C11_MissingRecordIs404 ==
    (/\ poll.status # 0
     /\ poll.service # ""
     /\ poll.version # ""
     /\ \/ ~QueryConfigMapByName(configMaps, poll.service).exists
        \/ /\ poll.service \in GatewayNames
           /\ ~configMaps[RouteConfigMap].exists)
    => /\ poll.status = 404
       /\ "env" \notin DOMAIN poll

\* A poll of a gateway-class service that has a record, the route table
\* having none.
C11_Witness ==
    /\ poll.status = 404
    /\ poll.service \in GatewayNames
    /\ configMaps[poll.service].exists
    /\ ~yamlUnmarshal(Data(configMaps[poll.service],
                           ConfigMapProfileKey(poll.version))).err
    /\ ~configMaps[RouteConfigMap].exists

\* A save of the api-gateway service, past separateRoute, whose document
\* has "routes" in its "zuul" mapping.
SeparatedRoutes ==
    /\ req[1].pc \notin {"idle", "panic"}
    /\ req[1].dto.service = ApiGatewayServiceName
    /\ HasRoutes(req[1].input)

\* The submitted document of the request, decoded.
InputDoc == yamlUnmarshal(req[1].input).map

\* The route output {"zuul": {"routes": <the extracted value>}}.
RouteOutput == "zuul" :> Map("routes" :> InputDoc["zuul"].m["routes"])

\* C12 as stated: the route output wraps the extracted value; the remainder
\* has no "zuul" key when "routes" was its only content, and else keeps
\* "zuul" with its other keys.
C12_ZuulRemovedWhenEmptied ==
    SeparatedRoutes =>
       /\ req[1].rm = RouteOutput
       /\ IF DOMAIN InputDoc["zuul"].m = {"routes"}
          THEN req[1].source = Without(InputDoc, "zuul")
          ELSE req[1].source =
                  [InputDoc EXCEPT !["zuul"] = Map(Without(@.m, "routes"))]

\* C12 amended: the route output wraps the extracted value; the remainder
\* keeps "zuul" with its other keys, an empty mapping when "routes" was its
\* only content; both are serialized into the two DTOs.
C12_ZuulRetained ==
    SeparatedRoutes =>
       /\ req[1].rm = RouteOutput
       /\ req[1].source =
             [InputDoc EXCEPT !["zuul"] = Map(Without(@.m, "routes"))]
       /\ Contain(req[1].source, "zuul")
       /\ ~Contain(req[1].source["zuul"].m, "routes")
       /\ req[1].dto.yaml = yamlMarshal(req[1].source)
       /\ req[1].routeDTO.yaml = yamlMarshal(RouteOutput)

\* A separation of a document whose "zuul" mapping held "routes" alone.
C12_Witness ==
    /\ SeparatedRoutes
    /\ DOMAIN InputDoc["zuul"].m = {"routes"}
    /\ req[1].source["zuul"] = Map(EmptyMap)

\* C13: a call of createOrUpdateConfigMap that finds no record calls create;
\* when the create succeeds an update follows if and only if the policy is
\* not reject-if-exists, without a crash, and under reject-if-exists the
\* call writes no error; when the create fails the call writes 500 and
\* makes no update.
C13_CreateThenUpdate ==
    \A i \in DOMAIN req[1].inv :
        LET e == req[1].inv[i]
        IN (Over(req[1], i) /\ ~e.q.exists)
           => /\ e.created # "no"
              /\ e.created = "ok" =>
                    /\ ~e.panicked
                    /\ (e.updated # "no") <=> (e.dto.policy # UpdatePolicyNot)
                    /\ e.dto.policy = UpdatePolicyNot => e.status = 0
              /\ e.created = "err" => (e.status = 500 /\ e.updated = "no")

\* C14: separateRoute returns normally for a gateway mapping whose "zuul"
\* key is absent or is no mapping: Save does not crash before its first
\* call on the store, the mapping is left as it was and the route output is
\* {"zuul": {}}.
C14_SeparateRouteTotal ==
    (/\ req[1].pc # "idle"
     /\ req[1].dto.service = ApiGatewayServiceName
     /\ ~yamlUnmarshal(req[1].input).err
     /\ ~(Contain(InputDoc, "zuul") /\ IsMap(InputDoc["zuul"])))
    => /\ ~(req[1].pc = "panic" /\ req[1].inv = <<>>)
       /\ req[1].source = InputDoc
       /\ req[1].rm = "zuul" :> Map(EmptyMap)

\* The keys and values of the routes of the request's document, flattened.
SavedRoutes == ConvertRecursiveMapToSingleMap(RouteOutput)

\* C15: after a successful api-gateway save with the policy overwrite of a
\* document with routes under profile p, a successful poll of api-gateway
\* with version p returns the flattened routes of that document.
C15_RoutesRoundTrip ==
    (/\ req[1].pc = "done"
     /\ req[1].dto.service = ApiGatewayServiceName
     /\ req[1].dto.policy = UpdatePolicyCover
     /\ HasRoutes(req[1].input)
     /\ Len(req[1].inv) = 2
     /\ req[1].inv[1].updated = "ok"
     /\ req[1].inv[2].updated = "ok"
     /\ poll.status # 0
     /\ poll.service = ApiGatewayServiceName
     /\ poll.version = req[1].dto.profile)
    => /\ poll.status = 200
       /\ \A k \in DOMAIN SavedRoutes :
             /\ k \in DOMAIN poll.env.source
             /\ poll.env.source[k] = SavedRoutes[k]

\* A finished save with the policy overwrite of a service that is not
\* gateway-class, its update having succeeded, followed by a poll of that
\* service with the save's profile as version.
CoverThenPoll ==
    /\ req[1].pc = "done"
    /\ req[1].dto.service \notin GatewayNames
    /\ req[1].dto.policy = UpdatePolicyCover
    /\ Len(req[1].inv) = 1
    /\ req[1].inv[1].updated = "ok"
    /\ poll.status # 0
    /\ poll.service = req[1].dto.service
    /\ poll.version = req[1].dto.profile

\* C16: such a poll succeeds and returns the flattened properties of the
\* saved document united with the static additions, these winning, under
\* the service's name and the profile.
C16_SaveThenPoll ==
    CoverThenPoll =>
       /\ poll.status = 200
       /\ poll.env.name = req[1].dto.service
       /\ poll.env.profiles = <<req[1].dto.profile>>
       /\ DOMAIN poll.env.source =
             DOMAIN ConvertRecursiveMapToSingleMap(InputDoc)
             \cup DOMAIN ConfigServerAdditions
       /\ \A k \in DOMAIN poll.env.source :
             poll.env.source[k] =
                IF k \in DOMAIN ConfigServerAdditions
                THEN ConfigServerAdditions[k]
                ELSE ConvertRecursiveMapToSingleMap(InputDoc)[k]

\* Such a poll under a named profile, of a record that holds another
\* profile's document too.
C16_Witness ==
    /\ CoverThenPoll
    /\ poll.version # DefaultProfile
    /\ DOMAIN InputDoc # {}
    /\ Cardinality(DOMAIN configMaps[poll.service].data) > 1

\* The routes a text of the route table holds, if any.
RoutesOf(text) ==
    IF HasRoutes(text)
    THEN [has |-> TRUE, routes |-> yamlUnmarshal(text).map["zuul"].m["routes"]]
    ELSE [has |-> FALSE]

\* A call for the route table, of an api-gateway save whose document has no
\* routes, that found the route table's record.
RoutelessCall(i) ==
    /\ Over(req[1], i)
    /\ req[1].inv[i].phase = "route"
    /\ ~HasRoutes(req[1].input)
    /\ req[1].inv[i].q.exists

\* C17 as stated: such a call leaves the routes stored in the route table as
\* they were, whatever the policy.
C17_RoutesKept ==
    \A i \in DOMAIN req[1].inv :
        RoutelessCall(i) =>
           RoutesOf(Stored(req[1].inv[i])) = RoutesOf(Queried(req[1].inv[i]))

\* C17 amended: such a call leaves the stored routes as they were under the
\* policies reject-if-exists and merge-if-exists; under overwrite, once the
\* update succeeded, the route table holds {"zuul": {}}.
C17_RoutesKeptUnlessCover ==
    \A i \in DOMAIN req[1].inv :
        LET e == req[1].inv[i]
        IN RoutelessCall(i) =>
              IF e.dto.policy = UpdatePolicyCover
              THEN IF e.updated = "ok"
                   THEN Stored(e) = yamlMarshal("zuul" :> Map(EmptyMap))
                   ELSE Stored(e) = Queried(e)
              ELSE RoutesOf(Stored(e)) = RoutesOf(Queried(e))

\* A merge-if-exists save without routes that updated a route table holding
\* routes.
C17_Witness ==
    \E i \in DOMAIN req[1].inv :
        /\ RoutelessCall(i)
        /\ req[1].inv[i].dto.policy = UpdatePolicyAdd
        /\ req[1].inv[i].updated = "ok"
        /\ HasRoutes(Queried(req[1].inv[i]))

\* C18: a step that produces a poll response leaves the store and the saves
\* as they were.
C18_PollLeavesStore ==
    [][(poll' # poll /\ poll'.status # 0) =>
          (configMaps' = configMaps /\ req' = req)]_vars

\* A successful poll of a gateway-class service whose stored document holds
\* routes: they are deleted from the response, not from the store.
C18_Witness ==
    /\ poll.status = 200
    /\ poll.service \in GatewayNames
    /\ HasRoutes(Data(configMaps[poll.service], ConfigMapProfileKey(poll.version)))
    /\ \A k \in DOMAIN poll.env.source :
          HasRoutePrefix(k) => k \in DOMAIN Flattened(RouteConfigMap)

====
